---- MODULE Spec2Model ----
(***************************************************************************)
(* Model of two generated Go files of influxdb:                            *)
(*   pkg/data/gen/values_sequence.gen.go  - the Time Values Sequence        *)
(*   tsdb/engine/tsm1 array_cursor_iterator.gen.go - the Array Cursor       *)
(*   Iterator's build operations (the cursor pool)                          *)
(* The five value types are generated from one template; the sequence is    *)
(* modelled once (the Float instance), the iterator with all five builds.   *)
(***************************************************************************)
EXTENDS Integers, Sequences, FiniteSets, TLC

\* ------------------------------------------------------------------ bounds

\* tsdb.DefaultMaxPointsPerBlock, scaled down (1000 in the program).
DefaultMaxPointsPerBlock == 2
\* Largest count a Time Values Sequence is constructed with.
MaxCount == 7
\* Number of Reset() calls explored on one Time Values Sequence.
MaxResets == 2
\* Number of false-returning Next() calls explored between two Resets.
MaxFalseCalls == 2
\* Timestamps of cache and disk points are drawn from 1..MaxTime.
MaxTime == 3
\* Points per on-disk block.
DiskBlockLen == 2
\* Number of build operations explored in one run.
MaxBuilds == 2
\* Number of empty results pulled from one Merge Cursor between two resets.
MaxEmptyPulls == 2

\* ------------------------------------------------------------- helpers

min(a, b) == IF a < b THEN a ELSE b

RECURSIVE SumSeq(_)
SumSeq(q) == IF q = <<>> THEN 0 ELSE Head(q) + SumSeq(Tail(q))

\* A Go slice: a backing array (its length is the capacity) and a length.
MakeSlice(sz) == [arr |-> [i \in 1..sz |-> 0], len |-> sz]
Cap(sl) == Len(sl.arr)
\* Mutant of Reslice: the reslice also cuts the capacity (sl[:c:c]).
Reslice_cutsCap(sl, c) == [arr |-> SubSeq(sl.arr, 1, c), len |-> c]

\* sl[:c]
Reslice(sl, c) == [sl EXCEPT !.len = c]
\* the elements a reader of the slice sees
View(sl) == SubSeq(sl.arr, 1, sl.len)

\* newFloatArrayLen(sz): both halves made with length (and capacity) sz
newFloatArrayLen(sz) == [Timestamps |-> MakeSlice(sz), Values |-> MakeSlice(sz)]

\* ------------------------------------------------- Time Values Sequence

VARIABLES
  count,      \* s.count
  n,          \* s.n
  vals,       \* s.vals: [Timestamps: slice, Values: slice]
  ts,         \* the Timestamp Sequence: [pos, writes, requested, resets]
  vs,         \* the Values Sequence:    [pos, writes, requested, resets]
  panicked,   \* a reslice beyond capacity panicked
  op,         \* the last operation: "New", "Reset", "Next", "Values"
  ret,        \* what the last Next() returned: "none", "true", "false"
  blocks,     \* lengths of the blocks exposed since construction / last Reset
  nextCalls,  \* Next() calls since construction / last Reset
  falseCalls, \* Next() calls that returned false since construction / last Reset
  resetCalls, \* number of Reset() calls so far
  filled,     \* the block filled by the last true Next(): [Timestamps, Values]
  subcalls,   \* the calls the last operation made on ts and vs, in order
  got         \* what the last Values() returned: [Timestamps, Values]

seqVars == <<count, n, vals, ts, vs, panicked, op, ret, blocks, nextCalls,
             falseCalls, resetCalls, filled, subcalls, got>>

\* The state of the Array Cursor Iterators (modelled further below).
VARIABLES
  asc,            \* q.asc.<Type>:  [iterator -> [type -> cursor id, 0 = nil]]
  desc,           \* q.desc.<Type>: [iterator -> [type -> cursor id, 0 = nil]]
  heap,           \* the Merge Cursor objects ever constructed, by id
  cache,          \* q.e.Cache: [key -> set of buffered timestamps]
  disk,           \* the on-disk data: [key -> set of persisted timestamps]
  call,           \* the last build call: arguments, reset's error, results
  builds,         \* number of build calls so far
  scans,          \* per cursor id: who constructed it, the scan it was last
                  \* built for, and what Next() has returned since
  handed,         \* cursor ids returned to callers
  query           \* the scan options of the query a single-scan run explores

iterVars == <<asc, desc, heap, cache, disk, call, builds, scans, handed,
              query>>

vars == <<seqVars, iterVars>>


\* The i-th timestamp and value of the generators (deterministic given the
\* position since the last Reset; timestamps strictly increasing).
TimestampAt(i) == i
ValueAt(i) == 10 + (i % 2)

NewGen == [pos |-> 0, writes |-> 0, requested |-> 0, resets |-> 0]
\* TimestampSequence.Write(buf) / FloatValuesSequence.Write(buf): fill the
\* len(buf) elements of the buffer, advance the generator.
TimestampsFill(g, sl) ==
  [sl EXCEPT !.arr = [i \in 1..Len(sl.arr) |->
                        IF i <= sl.len THEN TimestampAt(g.pos + i) ELSE sl.arr[i]]]
ValuesFill(g, sl) ==
  [sl EXCEPT !.arr = [i \in 1..Len(sl.arr) |->
                        IF i <= sl.len THEN ValueAt(g.pos + i) ELSE sl.arr[i]]]
SeqWrite(g, sl) ==
  [g EXCEPT !.pos = g.pos + sl.len, !.writes = g.writes + 1,
            !.requested = g.requested + sl.len]
\* TimestampSequence.Reset() / FloatValuesSequence.Reset()
SeqReset(g) == [pos |-> 0, writes |-> 0, requested |-> 0, resets |-> g.resets + 1]

Visible(v) == [Timestamps |-> View(v.Timestamps), Values |-> View(v.Values)]

\* The struct timeFloatValuesSequence as NewTimeFloatValuesSequence builds it.
NewSeq(c) ==
  [vals  |-> newFloatArrayLen(DefaultMaxPointsPerBlock),
   ts    |-> NewGen,
   vs    |-> NewGen,
   count |-> c,
   n     |-> c,
   panicked |-> FALSE]

\* Mutant of ResetSeq: the Timestamp Sequence is not reset.
ResetSeq_skipsTs(s) ==
  [s EXCEPT !.vs = SeqReset(s.vs), !.n = s.count]

\* Mutant of ResetSeq: Reset also truncates the typed array.
ResetSeq_clearsVals(s) ==
  [s EXCEPT !.ts = SeqReset(s.ts), !.vs = SeqReset(s.vs), !.n = s.count,
            !.vals = [Timestamps |-> Reslice(s.vals.Timestamps, 0),
                      Values |-> Reslice(s.vals.Values, 0)]]

\* Mutant of ResetSeq: Reset adds the count to what remains.
ResetSeq_addsCount(s) ==
  [s EXCEPT !.ts = SeqReset(s.ts), !.vs = SeqReset(s.vs), !.n = s.n + s.count]

\* Reset() on the struct s.
ResetSeq(s) ==
  [s EXCEPT !.ts = SeqReset(s.ts), !.vs = SeqReset(s.vs), !.n = s.count]

\* Mutant of HasRemaining: only a count of zero is taken for exhausted.
HasRemaining_nonZero(s) == s.n # 0

\* the guard of Next(): s.n > 0
HasRemaining(s) == s.n > 0

\* Mutant of BlockSize: the block is not bounded by the remaining count.
BlockSize_ignoresRemaining(s) == DefaultMaxPointsPerBlock

\* c := min(s.n, tsdb.DefaultMaxPointsPerBlock)
BlockSize(s) == min(s.n, DefaultMaxPointsPerBlock)

\* s.vals.Timestamps[:c]
TimestampsBuf(s, c) == Reslice(s.vals.Timestamps, c)

\* Mutant of ValuesBuf: the values half is not resliced.
ValuesBuf_notResliced(s, c) == s.vals.Values

\* s.vals.Values[:c]
ValuesBuf(s, c) == Reslice(s.vals.Values, c)

\* Mutant of NextBlockCalls: the values are written before the timestamps.
NextBlockCalls_valuesFirst(s) ==
  <<[fn |-> "vs.Write", len |-> ValuesBuf(s, BlockSize(s)).len],
    [fn |-> "ts.Write", len |-> TimestampsBuf(s, BlockSize(s)).len]>>

\* s.ts.Write(s.vals.Timestamps); s.vs.Write(s.vals.Values): the calls a true
\* Next() makes, in order, with the length of the buffer each is given.
NextBlockCalls(s) ==
  <<[fn |-> "ts.Write", len |-> TimestampsBuf(s, BlockSize(s)).len],
    [fn |-> "vs.Write", len |-> ValuesBuf(s, BlockSize(s)).len]>>

\* s.ts.Reset(); s.vs.Reset(): the calls Reset() makes, in order.
ResetSeqCalls == <<[fn |-> "ts.Reset", len |-> 0], [fn |-> "vs.Reset", len |-> 0]>>

\* The body of `if s.n > 0 { ... return true }`.
NextBlock(s) ==
  LET c == BlockSize(s) IN
  IF c < 0 \/ c > Cap(s.vals.Timestamps)
    THEN \* s.vals.Timestamps[:c] panics; s.n is already decremented
         [s |-> [s EXCEPT !.n = s.n - c, !.panicked = TRUE], ret |-> "panic"]
    ELSE
  IF c > Cap(s.vals.Values)
    THEN [s |-> [s EXCEPT !.n = s.n - c, !.panicked = TRUE,
                          !.vals.Timestamps = Reslice(s.vals.Timestamps, c)],
          ret |-> "panic"]
    ELSE LET t == TimestampsBuf(s, c)
             v == ValuesBuf(s, c)
         IN [s |-> [s EXCEPT !.n = s.n - c,
                             !.vals = [Timestamps |-> TimestampsFill(s.ts, t),
                                       Values |-> ValuesFill(s.vs, v)],
                             !.ts = SeqWrite(s.ts, t),
                             !.vs = SeqWrite(s.vs, v)],
             ret |-> "true"]

\* Mutant of NextExhausted: an exhausted Next() rewinds the sequence.
NextExhausted_rewinds(s) == [s |-> ResetSeq(s), ret |-> "false"]

\* The final `return false` of Next().
NextExhausted(s) == [s |-> s, ret |-> "false"]

\* Next() on the struct s: [s |-> the struct afterwards, ret |-> the result].
NextSeqStep(s) == IF HasRemaining(s) THEN NextBlock(s) ELSE NextExhausted(s)

Self == [vals |-> vals, ts |-> ts, vs |-> vs, count |-> count, n |-> n,
         panicked |-> panicked]

SetSelf(s) ==
  /\ vals' = s.vals
  /\ ts' = s.ts
  /\ vs' = s.vs
  /\ count' = s.count
  /\ n' = s.n
  /\ panicked' = s.panicked

\* NewTimeFloatValuesSequence(count, ts, vs)
NewTimeFloatValuesSequence(c) ==
  /\ vals = NewSeq(c).vals
  /\ ts = NewSeq(c).ts
  /\ vs = NewSeq(c).vs
  /\ count = NewSeq(c).count
  /\ n = NewSeq(c).n
  /\ panicked = NewSeq(c).panicked
  /\ op = "New"
  /\ ret = "none"
  /\ blocks = <<>>
  /\ nextCalls = 0
  /\ falseCalls = 0
  /\ resetCalls = 0
  /\ filled = Visible(NewSeq(c).vals)
  /\ subcalls = <<>>
  /\ got = [Timestamps |-> <<>>, Values |-> <<>>]


\* func (s *timeFloatValuesSequence) Reset()
Reset ==
  /\ ~panicked
  /\ resetCalls < MaxResets
  /\ SetSelf(ResetSeq(Self))
  /\ op' = "Reset"
  /\ ret' = "none"
  /\ blocks' = <<>>
  /\ nextCalls' = 0
  /\ falseCalls' = 0
  /\ resetCalls' = resetCalls + 1
  /\ subcalls' = ResetSeqCalls
  /\ UNCHANGED <<filled, got>>
  /\ UNCHANGED iterVars

\* func (s *timeFloatValuesSequence) Next() bool
Next ==
  /\ ~panicked
  /\ falseCalls < MaxFalseCalls
  /\ LET r == NextSeqStep(Self) IN
       /\ SetSelf(r.s)
       /\ ret' = r.ret
       /\ blocks' = IF r.ret = "true"
                      THEN Append(blocks, Len(View(r.s.vals.Timestamps)))
                      ELSE blocks
       /\ filled' = IF r.ret = "true" THEN Visible(r.s.vals) ELSE filled
       /\ falseCalls' = IF r.ret = "false" THEN falseCalls + 1 ELSE falseCalls
       /\ subcalls' = IF r.ret = "true" THEN NextBlockCalls(Self) ELSE <<>>
  /\ op' = "Next"
  /\ nextCalls' = nextCalls + 1
  /\ UNCHANGED <<resetCalls, got>>
  /\ UNCHANGED iterVars

\* func (s *timeFloatValuesSequence) Values() Values
Values ==
  /\ ~panicked
  /\ op' = "Values"
  /\ got' = Visible(vals)
  /\ UNCHANGED <<count, n, vals, ts, vs, panicked, ret, blocks, nextCalls,
                 falseCalls, resetCalls, filled, subcalls>>
  /\ UNCHANGED iterVars


\* ------------------------------------------------ Array Cursor Iterator

Iterators == {"A", "B"}
FieldTypes == {"Float", "Integer", "Unsigned", "String", "Boolean"}
Fields == {"f1", "f2"}
Times == 1..MaxTime
SeriesName == "cpu"
SeriesTags == "host=a"
NoErr == "nil"
ErrRead == "read error"

\* q.seriesFieldKeyBytes(name, tags, field)
seriesFieldKeyBytes(name, tags, field) == <<name, tags, field>>
Keys == {seriesFieldKeyBytes(SeriesName, SeriesTags, f) : f \in Fields}

\* The value the cache / the disk holds at timestamp t.
CacheVal(t) == 100 + t
DiskVal(t) == 200 + t

SetMin(S) == CHOOSE x \in S : \A y \in S : x <= y
SetMax(S) == CHOOSE x \in S : \A y \in S : x >= y

RECURSIVE SortedSeq(_)
SortedSeq(S) ==
  IF S = {} THEN <<>> ELSE <<SetMin(S)>> \o SortedSeq(S \ {SetMin(S)})

Reverse(s) == [i \in 1..Len(s) |-> s[Len(s) + 1 - i]]

RECURSIVE Chunk(_, _)
Chunk(s, k) ==
  IF Len(s) <= k
    THEN (IF s = <<>> THEN <<>> ELSE <<s>>)
    ELSE <<SubSeq(s, 1, k)>> \o Chunk(SubSeq(s, k + 1, Len(s)), k)

\* A snapshot of buffered points at the times S, ascending by time.
CacheValuesOf(S) ==
  LET s == SortedSeq(S)
  IN [i \in 1..Len(s) |-> [t |-> s[i], v |-> CacheVal(s[i])]]

\* q.e.Cache.Values(key): the buffered points of the key, ascending by time.
CacheValues(key) == CacheValuesOf(cache[key])

\* On-disk blocks holding the times S: ascending, non-overlapping,
\* DiskBlockLen points each.
DiskBlocksOf(S) ==
  LET s == SortedSeq(S)
  IN Chunk([i \in 1..Len(s) |-> [t |-> s[i], v |-> DiskVal(s[i])]], DiskBlockLen)

\* The key's on-disk blocks.
DiskBlocks(key) == DiskBlocksOf(disk[key])

\* the blocks that hold a point at or after seek
RECURSIVE BlocksFrom(_, _)
BlocksFrom(bs, seek) ==
  IF bs = <<>> THEN <<>>
  ELSE IF Head(bs)[Len(Head(bs))].t >= seek
    THEN <<Head(bs)>> \o BlocksFrom(Tail(bs), seek)
    ELSE BlocksFrom(Tail(bs), seek)

\* the blocks that hold a point at or before seek
RECURSIVE BlocksUpto(_, _)
BlocksUpto(bs, seek) ==
  IF bs = <<>> THEN <<>>
  ELSE IF Head(bs)[1].t <= seek
    THEN <<Head(bs)>> \o BlocksUpto(Tail(bs), seek)
    ELSE BlocksUpto(Tail(bs), seek)

\* q.e.KeyCursor(ctx, key, seek, ascending): a cursor positioned on the first
\* block (in scan direction) that holds a point at or after (before) seek.
\* err is the outcome of opening it, reported by the merge cursor's reset.
KeyCursorOn(all, key, seek, ascending, err) ==
  [key |-> key, seek |-> seek, ascending |-> ascending, err |-> err,
   blocks |-> IF err # NoErr THEN <<>>
              ELSE IF ascending THEN BlocksFrom(all, seek)
              ELSE Reverse(BlocksUpto(all, seek))]

\* The key cursor over the key's blocks as they are on disk now.
KeyCursor(key, seek, ascending, err) ==
  KeyCursorOn(DiskBlocks(key), key, seek, ascending, err)

NilKeyCursor == [key |-> <<>>, seek |-> 0, ascending |-> TRUE, err |-> NoErr,
                 blocks |-> <<>>]

\* ---- Merge Cursor (its reset and next are modelled from the design
\* ---- specification, section 4.1)

\* new<Type>Array{Ascending,Descending}Cursor(): constructed empty.
newArrayCursor(typ, ascending) ==
  [typ |-> typ, ascending |-> ascending, seek |-> 0, end |-> 0,
   cache |-> <<>>, cpos |-> 1, kc |-> NilKeyCursor, tsm |-> <<>>, tpos |-> 1,
   resets |-> 0]

\* The first offset of a time-ascending array to read from, in scan direction.
FirstPos(s, seek, ascending) ==
  IF ascending
    THEN LET I == {i \in 1..Len(s) : s[i].t >= seek}
         IN IF I = {} THEN Len(s) + 1 ELSE SetMin(I)
    ELSE LET I == {i \in 1..Len(s) : s[i].t <= seek}
         IN IF I = {} THEN 0 ELSE SetMax(I)
StartPos(s, ascending) == IF ascending THEN 1 ELSE Len(s)
StepPos(pos, ascending) == IF ascending THEN pos + 1 ELSE pos - 1
HasData(s, pos) == 1 <= pos /\ pos <= Len(s)

\* When the current disk block is exhausted, pull the next one; an empty pull
\* means the disk is exhausted.
RECURSIVE Refill(_)
Refill(c) ==
  IF HasData(c.tsm, c.tpos) \/ c.kc.blocks = <<>>
    THEN c
    ELSE Refill([c EXCEPT !.tsm = Head(c.kc.blocks),
                          !.tpos = StartPos(Head(c.kc.blocks), c.ascending),
                          !.kc.blocks = Tail(c.kc.blocks)])

\* cursor.reset(seekTime, stopTime, cacheValues, keyCursor)
CursorReset(c, seek, stop, cacheValues, keyCursor) ==
  IF keyCursor.err # NoErr
    THEN [c |-> [newArrayCursor(c.typ, c.ascending) EXCEPT !.resets = c.resets + 1],
          err |-> keyCursor.err]
    ELSE LET first == IF keyCursor.blocks = <<>> THEN <<>> ELSE Head(keyCursor.blocks)
             rest == IF keyCursor.blocks = <<>> THEN <<>> ELSE Tail(keyCursor.blocks)
         IN [c |-> Refill([typ |-> c.typ, ascending |-> c.ascending,
                           seek |-> seek, end |-> stop,
                           cache |-> cacheValues,
                           cpos |-> FirstPos(cacheValues, seek, c.ascending),
                           kc |-> [keyCursor EXCEPT !.blocks = rest],
                           tsm |-> first,
                           tpos |-> FirstPos(first, seek, c.ascending),
                           resets |-> c.resets + 1]),
             err |-> NoErr]

Before(a, b, ascending) == IF ascending THEN a < b ELSE a > b
\* the stop bound of the scan, inclusive
InBounds(c, t) == IF c.ascending THEN t <= c.end ELSE t >= c.end

\* The next point comes from the cache: only the cache has data, or its
\* timestamp is the earlier (later, descending) one, or both are equal.
TakeCache(c) ==
  /\ HasData(c.cache, c.cpos)
  /\ \/ ~HasData(c.tsm, c.tpos)
     \/ c.cache[c.cpos].t = c.tsm[c.tpos].t
     \/ Before(c.cache[c.cpos].t, c.tsm[c.tpos].t, c.ascending)

\* the output array is full
BufferFull(out) == Len(out) >= DefaultMaxPointsPerBlock

\* Mutant of MergeDone: a cursor that returns nothing rewinds its cache offset.
MergeDone_rewinds(c, out) ==
  [c |-> IF out = <<>>
           THEN [c EXCEPT !.cpos = FirstPos(c.cache, c.seek, c.ascending)]
           ELSE c,
   out |-> out]

\* The loop ends: the filled prefix is returned, nothing more is consumed.
MergeDone(c, out) == [c |-> c, out |-> out]

\* The merge loop of next(): fill out with merged, deduplicated points.
RECURSIVE Merge(_, _)
Merge(c, out) ==
  IF BufferFull(out) \/ (~HasData(c.cache, c.cpos) /\ ~HasData(c.tsm, c.tpos))
    THEN MergeDone(c, out)
    ELSE LET fromCache == TakeCache(c)
             tie == /\ HasData(c.cache, c.cpos) /\ HasData(c.tsm, c.tpos)
                    /\ c.cache[c.cpos].t = c.tsm[c.tpos].t
             p == IF fromCache THEN c.cache[c.cpos] ELSE c.tsm[c.tpos]
         IN IF ~InBounds(c, p.t)
              THEN MergeDone(c, out)
              ELSE Merge(Refill([c EXCEPT
                           !.cpos = IF fromCache THEN StepPos(@, c.ascending) ELSE @,
                           !.tpos = IF ~fromCache \/ tie
                                      THEN StepPos(@, c.ascending) ELSE @]),
                         Append(out, p))

\* cursor.Next(): [c |-> the cursor afterwards, out |-> the array returned]
CursorNextStep(c) == Merge(c, <<>>)

\* ---- the build operations (array_cursor_iterator.gen.go)

\* Mutant of Pool: every iterator uses the pool of iterator "A".
Pool_shared(q) == "A"

\* q.asc / q.desc: the pool a build on iterator q works on.
Pool(q) == q

\* Mutant of SlotIsNil: the slot is taken for empty on every build.
SlotIsNil_always(id) == TRUE

\* q.asc.Float == nil
SlotIsNil(id) == id = 0

\* the pooled cursor of (type, direction) in q's pool
GetSlot(q, typ, ascending) ==
  IF ascending THEN asc[Pool(q)][typ] ELSE desc[Pool(q)][typ]

\* Mutant of SetSlot: the cursor is stored in the slots of both directions.
SetSlot_bothDirections(q, typ, ascending, id) ==
  /\ asc' = [asc EXCEPT ![Pool(q)][typ] = id]
  /\ desc' = [desc EXCEPT ![Pool(q)][typ] = id]

\* q.asc.Float = ... / q.desc.Float = ... (the other slots keep their cursor)
SetSlot(q, typ, ascending, id) ==
  /\ asc' = IF ascending THEN [asc EXCEPT ![Pool(q)][typ] = id] ELSE asc
  /\ desc' = IF ascending THEN desc ELSE [desc EXCEPT ![Pool(q)][typ] = id]

\* Mutant of ResetStop: the seek time is passed as the stop time.
ResetStop_usesSeek(opt) == opt.SeekTime

\* Mutant of ResetSeek: the stop time is passed as the seek time.
ResetSeek_usesStop(opt) == opt.StopTime

\* the arguments opt.SeekTime(), opt.StopTime() of reset
ResetSeek(opt) == opt.SeekTime
ResetStop(opt) == opt.StopTime

\* Mutant of BuildReturn: the cursor is returned together with the error.
BuildReturn_cursorWithError(id, err) == [cursor |-> id, err |-> err]

\* if err != nil { return nil, err }; return q.asc.Float, nil
BuildReturn(id, err) ==
  IF err # NoErr THEN [cursor |-> 0, err |-> err]
                 ELSE [cursor |-> id, err |-> NoErr]

\* The body shared by the five generated build functions.
\* Mutant of OpenAscending: the key cursor is always opened ascending.
OpenAscending_always(opt) == TRUE

\* the direction argument of q.e.KeyCursor(ctx, key, opt.SeekTime(), opt.Ascending)
OpenAscending(opt) == opt.Ascending

\* Mutant of BuildSources: the key cursor is opened before the cache snapshot
\* is taken, so the snapshot is the one that follows the flush.
BuildSources_diskFirst(key, moved) ==
  [cacheSet |-> cache[key] \ moved, diskSet |-> disk[key]]

\* cacheValues := q.e.Cache.Values(key); keyCursor := q.e.KeyCursor(...): what
\* each of the two calls sees of the key when the engine moves the points
\* `moved` from the cache to disk between them.
BuildSources(key, moved) ==
  [cacheSet |-> cache[key], diskSet |-> disk[key] \cup moved]

\* The calls a build makes on the engine and on the pooled cursor, in order.
BuildCalls(isNew) ==
  <<"Cache.Values", "KeyCursor">> \o (IF isNew THEN <<"new">> ELSE <<>>) \o <<"reset">>

\* Mutant of SlotAtReturn: a failed reset empties the slot.
SlotAtReturn_clearedOnError(id, err) == IF err # NoErr THEN 0 ELSE id

\* The slot when the build returns: neither `return nil, err` nor
\* `return q.asc.Float, nil` assigns it, so it holds the cursor reset was
\* invoked on.
SlotAtReturn(id, err) == id

\* The template body of the five build functions, run on iterator q while the
\* engine flushes the points `moved` of the key between Cache.Values and
\* KeyCursor (moved = {}: no flush during the build).
BuildArrayCursor(q, typ, field, opt, kcErr, moved) ==
  /\ builds < MaxBuilds
  /\ moved \subseteq cache[seriesFieldKeyBytes(SeriesName, SeriesTags, field)]
  /\ LET key == seriesFieldKeyBytes(SeriesName, SeriesTags, field)
         src == BuildSources(key, moved)
         cacheValues == CacheValuesOf(src.cacheSet)
         keyCursor == KeyCursorOn(DiskBlocksOf(src.diskSet), key, opt.SeekTime,
                                  OpenAscending(opt), kcErr)
         old == GetSlot(q, typ, opt.Ascending)
         isNew == SlotIsNil(old)
         id == IF isNew THEN Len(heap) + 1 ELSE old
         obj == IF isNew THEN newArrayCursor(typ, opt.Ascending) ELSE heap[old]
         r == CursorReset(obj, ResetSeek(opt), ResetStop(opt), cacheValues, keyCursor)
         res == BuildReturn(id, r.err)
         scan == [home |-> IF isNew THEN <<q, typ, opt.Ascending>> ELSE scans[old].home,
                  key |-> key, opt |-> opt,
                  cacheSet |-> src.cacheSet, diskSet |-> src.diskSet,
                  ok |-> r.err = NoErr,
                  failed |-> (IF isNew THEN 0 ELSE scans[old].failed)
                               + (IF r.err = NoErr THEN 0 ELSE 1),
                  emitted |-> <<>>, last |-> <<>>, pulls |-> 0, emptyPulls |-> 0]
     IN /\ heap' = IF isNew THEN Append(heap, r.c) ELSE [heap EXCEPT ![id] = r.c]
        /\ scans' = IF isNew THEN Append(scans, scan) ELSE [scans EXCEPT ![id] = scan]
        /\ SetSlot(q, typ, opt.Ascending, SlotAtReturn(id, r.err))
        /\ call' = [q |-> q, typ |-> typ, field |-> field, opt |-> opt,
                    constructed |-> isNew, slot |-> id, resetErr |-> r.err,
                    cursor |-> res.cursor, err |-> res.err,
                    calls |-> BuildCalls(isNew), moved |-> moved,
                    cacheValues |-> cacheValues, keyCursor |-> keyCursor,
                    seek |-> ResetSeek(opt)]
        /\ handed' = IF res.cursor # 0 THEN handed \cup {res.cursor} ELSE handed
        /\ cache' = [cache EXCEPT ![key] = @ \ moved]
        /\ disk' = [disk EXCEPT ![key] = @ \cup moved]
  /\ builds' = builds + 1
  /\ UNCHANGED query
  /\ UNCHANGED seqVars

buildFloatArrayCursor(q, field, opt, kcErr) ==
  BuildArrayCursor(q, "Float", field, opt, kcErr, {})
buildIntegerArrayCursor(q, field, opt, kcErr) ==
  BuildArrayCursor(q, "Integer", field, opt, kcErr, {})
buildUnsignedArrayCursor(q, field, opt, kcErr) ==
  BuildArrayCursor(q, "Unsigned", field, opt, kcErr, {})
buildStringArrayCursor(q, field, opt, kcErr) ==
  BuildArrayCursor(q, "String", field, opt, kcErr, {})
buildBooleanArrayCursor(q, field, opt, kcErr) ==
  BuildArrayCursor(q, "Boolean", field, opt, kcErr, {})

\* buildFloatArrayCursor while the engine flushes the points `moved` of the
\* key from the cache to disk between its Cache.Values and KeyCursor calls.
buildFloatArrayCursorFlushed(q, field, opt, kcErr, moved) ==
  BuildArrayCursor(q, "Float", field, opt, kcErr, moved)

\* The caller pulls the next array from a cursor it was handed.
CursorNext(id) ==
  /\ id \in handed
  /\ scans[id].emptyPulls < MaxEmptyPulls
  /\ LET r == CursorNextStep(heap[id]) IN
       /\ heap' = [heap EXCEPT ![id] = r.c]
       /\ scans' = [scans EXCEPT ![id].emitted = @ \o r.out,
                                 ![id].last = r.out,
                                 ![id].pulls = @ + 1,
                                 ![id].emptyPulls = IF r.out = <<>> THEN @ + 1 ELSE @]
  /\ UNCHANGED <<asc, desc, cache, disk, call, builds, handed, query>>
  /\ UNCHANGED seqVars

NoCall == [q |-> "", typ |-> "", field |-> "", opt |-> <<>>, constructed |-> FALSE,
           slot |-> 0, resetErr |-> NoErr, cursor |-> 0, err |-> NoErr,
           calls |-> <<>>, moved |-> {}, cacheValues |-> <<>>,
           keyCursor |-> NilKeyCursor, seek |-> 0]

\* The iterators after construction: every pool slot nil.
InitPool ==
  /\ asc = [q \in Iterators |-> [typ \in FieldTypes |-> 0]]
  /\ desc = [q \in Iterators |-> [typ \in FieldTypes |-> 0]]
  /\ heap = <<>>
  /\ scans = <<>>
  /\ call = NoCall
  /\ builds = 0
  /\ handed = {}

KeyOf(f) == seriesFieldKeyBytes(SeriesName, SeriesTags, f)

\* query.IteratorOptions, as far as a build reads it: opt.Ascending,
\* opt.SeekTime(), opt.StopTime().
IteratorOptions == [Ascending : BOOLEAN, SeekTime : Times, StopTime : Times]

\* The widest scan of one direction.
FullRange(ascending) ==
  [Ascending |-> ascending,
   SeekTime |-> IF ascending THEN 1 ELSE MaxTime,
   StopTime |-> IF ascending THEN MaxTime ELSE 1]

\* Two iterators, five types, both directions, over a fixed cache and disk.
InitIter ==
  /\ InitPool
  /\ cache = [k \in Keys |-> IF k = KeyOf("f1") THEN {1, MaxTime} ELSE {2}]
  /\ disk = [k \in Keys |-> IF k = KeyOf("f1") THEN 2..MaxTime ELSE {1}]
  /\ query = FullRange(TRUE)
  /\ NewTimeFloatValuesSequence(0)

NextIter ==
  \/ \E q \in Iterators, f \in Fields, a \in BOOLEAN, e \in {NoErr, ErrRead} :
       buildFloatArrayCursor(q, f, FullRange(a), e)
  \/ \E q \in Iterators, f \in Fields, a \in BOOLEAN, e \in {NoErr, ErrRead} :
       buildIntegerArrayCursor(q, f, FullRange(a), e)
  \/ \E q \in Iterators, f \in Fields, a \in BOOLEAN, e \in {NoErr, ErrRead} :
       buildUnsignedArrayCursor(q, f, FullRange(a), e)
  \/ \E q \in Iterators, f \in Fields, a \in BOOLEAN, e \in {NoErr, ErrRead} :
       buildStringArrayCursor(q, f, FullRange(a), e)
  \/ \E q \in Iterators, f \in Fields, a \in BOOLEAN, e \in {NoErr, ErrRead} :
       buildBooleanArrayCursor(q, f, FullRange(a), e)

SpecIter == InitIter /\ [][NextIter]_vars

\* One query (any direction and bounds) over every cache and disk content of
\* a key: build the float cursor, pull arrays, build it again.
InitMerge ==
  /\ InitPool
  /\ \E cs \in SUBSET Times, ds \in SUBSET Times :
       /\ cache = [k \in Keys |-> IF k = KeyOf("f1") THEN cs ELSE {}]
       /\ disk = [k \in Keys |-> IF k = KeyOf("f1") THEN ds ELSE {}]
  /\ query \in IteratorOptions
  /\ NewTimeFloatValuesSequence(0)

NextMerge ==
  \/ \E e \in {NoErr, ErrRead} : buildFloatArrayCursor("A", "f1", query, e)
  \/ \E id \in handed : CursorNext(id)

SpecMerge == InitMerge /\ [][NextMerge]_vars

\* One iterator building float cursors for one key while the engine flushes
\* points of the key from the cache to disk during the builds.
InitFlush ==
  /\ InitPool
  /\ \E cs \in SUBSET Times, ds \in SUBSET Times :
       /\ cache = [k \in Keys |-> IF k = KeyOf("f1") THEN cs ELSE {}]
       /\ disk = [k \in Keys |-> IF k = KeyOf("f1") THEN ds ELSE {}]
  /\ query \in {o \in IteratorOptions : o.StopTime = FullRange(o.Ascending).StopTime}
  /\ NewTimeFloatValuesSequence(0)

NextFlush ==
  \E e \in {NoErr, ErrRead}, moved \in SUBSET cache[KeyOf("f1")] :
    buildFloatArrayCursorFlushed("A", "f1", query, e, moved)

SpecFlush == InitFlush /\ [][NextFlush]_vars

\* A Time Values Sequence of any count, driven by Reset(), Next(), Values().
InitSeq ==
  /\ \E c \in -1..MaxCount : NewTimeFloatValuesSequence(c)
  /\ InitPool
  /\ cache = [k \in Keys |-> {}]
  /\ disk = [k \in Keys |-> {}]
  /\ query = FullRange(TRUE)

NextSeq == Reset \/ Next \/ Values

SpecSeq == InitSeq /\ [][NextSeq]_vars

\* ------------------------------------------ claims: Array Cursor Iterator

CursorIds == 1..Len(heap)
SlotOf(q, typ, ascending) == IF ascending THEN asc[q][typ] ELSE desc[q][typ]
Homes == Iterators \X FieldTypes \X BOOLEAN

RECURSIVE SumResets(_)
SumResets(h) == IF h = <<>> THEN 0 ELSE Head(h).resets + SumResets(Tail(h))

\* C5: per iterator and (type, direction) at most one Merge Cursor is ever
\* constructed; it is constructed by the first build of the pair and sits in
\* the pair's slot; every build resets exactly one cursor, that of its slot,
\* and a successful build returns it, rebound to the key it was built for.
C5_OneCursorPerSlot ==
  /\ \A h \in Homes : Cardinality({id \in CursorIds : scans[id].home = h}) <= 1
  /\ \A h \in Homes :
       /\ SlotOf(h[1], h[2], h[3]) \in {0} \cup CursorIds
       /\ SlotOf(h[1], h[2], h[3]) # 0 =>
            /\ scans[SlotOf(h[1], h[2], h[3])].home = h
            /\ heap[SlotOf(h[1], h[2], h[3])].typ = h[2]
            /\ heap[SlotOf(h[1], h[2], h[3])].ascending = h[3]
       /\ (SlotOf(h[1], h[2], h[3]) = 0) =
            ({id \in CursorIds : scans[id].home = h} = {})
  /\ SumResets(heap) = builds
  /\ \A id \in CursorIds : heap[id].resets >= 1
  /\ call.q # "" =>
       /\ call.slot = SlotOf(call.q, call.typ, call.opt.Ascending)
       /\ scans[call.slot].home = <<call.q, call.typ, call.opt.Ascending>>
       /\ (call.err = NoErr =>
             /\ call.cursor = call.slot
             /\ heap[call.cursor].cache = CacheValues(KeyOf(call.field))
             /\ heap[call.cursor].seek = call.opt.SeekTime)

\* C5 witness: the second build of a pair found the cursor of the first build
\* in the slot, reset it again and returned it.
C5_Witness ==
  /\ builds = 2 /\ Len(heap) = 1
  /\ ~call.constructed /\ call.err = NoErr /\ call.cursor = 1
  /\ heap[1].resets = 2 /\ 1 \in handed

\* C6: a build returns (cursor, nil) or (nil, error), never both, never
\* neither: reset's error comes back with a nil cursor, and a successful
\* reset gives the slot's cursor with a nil error.
C6_CursorXorError ==
  call.q # "" =>
    /\ (call.cursor # 0) # (call.err # NoErr)
    /\ (call.resetErr # NoErr => call.err = call.resetErr /\ call.cursor = 0)
    /\ (call.resetErr = NoErr =>
          /\ call.err = NoErr
          /\ call.cursor # 0
          /\ call.cursor = SlotOf(call.q, call.typ, call.opt.Ascending))

\* C6 witness: a build failed on a slot that already held a cursor: the error
\* is returned and the cursor is not.
C6_Witness ==
  /\ call.q # "" /\ call.err = ErrRead /\ call.cursor = 0
  /\ ~call.constructed /\ call.slot # 0

\* C10 (state part): every pooled cursor of an iterator was constructed by
\* that iterator, and a build returns a cursor of the iterator it ran on.
C10_OwnCursors ==
  /\ \A h \in Homes :
       SlotOf(h[1], h[2], h[3]) # 0 => scans[SlotOf(h[1], h[2], h[3])].home[1] = h[1]
  /\ call.cursor # 0 => scans[call.cursor].home[1] = call.q

\* C10 (step part): a build on one iterator leaves the pool slots of the other
\* iterator and the cursors the other iterator constructed as they were.
C10_BuildFrame ==
  /\ \A q \in Iterators : q # call'.q => asc'[q] = asc[q] /\ desc'[q] = desc[q]
  /\ \A id \in CursorIds :
       scans[id].home[1] # call'.q => heap'[id] = heap[id] /\ scans'[id] = scans[id]

\* C10: two Array Cursor Iterators share no cursor state: a build on one
\* never constructs into, resets or returns a pooled cursor of the other.
C10_IteratorsShareNoCursor == [](C10_OwnCursors) /\ [][C10_BuildFrame]_vars

\* C10 witness: both iterators hold a cursor for the same (type, direction),
\* A's built first and handed out, then B's.
C10_Witness ==
  /\ Len(heap) = 2 /\ handed = {1, 2}
  /\ scans[1].home[1] = "A" /\ scans[2].home[1] = "B"
  /\ scans[1].home[2] = scans[2].home[2]
  /\ scans[1].home[3] = scans[2].home[3]
  /\ call.q = "B"

\* The home of the build that made the step: (iterator, type, direction).
HomeOfCall(c) == <<c.q, c.typ, c.opt.Ascending>>

\* the slot of (iterator, type, direction) after the step
SlotAfter(q, typ, ascending) == IF ascending THEN asc'[q][typ] ELSE desc'[q][typ]

\* C16 (step part): a build leaves the other nine slots of its iterator, and
\* the cursors sitting in them, as they were; a cursor it constructs belongs
\* to its own pair.
C16_BuildFrame ==
  builds' = builds + 1 =>
    /\ \A typ \in FieldTypes, a \in BOOLEAN :
         <<call'.q, typ, a>> # HomeOfCall(call') =>
           SlotAfter(call'.q, typ, a) = SlotOf(call'.q, typ, a)
    /\ \A id \in CursorIds :
         (scans[id].home[1] = call'.q /\ scans[id].home # HomeOfCall(call')) =>
           /\ heap'[id] = heap[id]
           /\ scans'[id] = scans[id]
           /\ SlotOf(scans[id].home[1], scans[id].home[2], scans[id].home[3]) = id
    /\ \A id \in (1..Len(heap')) \ CursorIds : scans'[id].home = HomeOfCall(call')
    /\ Len(heap') <= Len(heap) + 1
    /\ handed' \subseteq handed \cup {call'.slot}

\* C16: a build for one (type, direction) pair touches only that pair's slot:
\* it neither constructs, resets nor replaces the cursor of any of the other
\* nine slots of the iterator.
C16_BuildTouchesOwnSlot == [][C16_BuildFrame]_vars

\* C16 witness: the cursor of one direction was handed out, then the same
\* iterator built the opposite direction of the same type; the first cursor
\* is still in its slot, reset once.
C16_Witness ==
  /\ builds = 2 /\ Len(heap) = 2 /\ call.slot = 2
  /\ scans[1].home[1] = scans[2].home[1]
  /\ scans[1].home[2] = scans[2].home[2]
  /\ scans[1].home[3] # scans[2].home[3]
  /\ 1 \in handed /\ heap[1].resets = 1
  /\ SlotOf(scans[1].home[1], scans[1].home[2], scans[1].home[3]) = 1

\* C18 (state part): every constructed cursor sits in the slot of its pair; a
\* failed build constructed the cursor if the slot was empty, invoked reset
\* once, and left the cursor in the slot.
C18_SlotKept ==
  /\ \A id \in CursorIds :
       SlotOf(scans[id].home[1], scans[id].home[2], scans[id].home[3]) = id
  /\ (call.q # "" /\ call.err # NoErr) =>
       /\ call.slot # 0
       /\ SlotOf(call.q, call.typ, call.opt.Ascending) = call.slot
       /\ Cardinality({i \in 1..Len(call.calls) : call.calls[i] = "reset"}) = 1
       /\ call.calls[Len(call.calls)] = "reset"
       /\ call.constructed => call.calls[Len(call.calls) - 1] = "new"
       /\ heap[call.slot].resets >= 1
       /\ scans[call.slot].failed >= 1

\* C18 (step part): a failing build adds one reset to the slot's cursor (the
\* first, on a cursor it constructed) and leaves it in the slot; a successful
\* build on a slot whose cursor saw a failed build returns that cursor and
\* constructs nothing.
C18_BuildStep ==
  builds' = builds + 1 =>
    LET old == SlotOf(call'.q, call'.typ, call'.opt.Ascending)
        now == SlotAfter(call'.q, call'.typ, call'.opt.Ascending)
    IN /\ call'.err # NoErr =>
            /\ now # 0 /\ now = call'.slot
            /\ old # 0 => now = old /\ heap'[now].resets = heap[old].resets + 1
            /\ old = 0 => call'.constructed /\ heap'[now].resets = 1
       /\ (call'.err = NoErr /\ old # 0) =>
            /\ ~call'.constructed
            /\ call'.cursor = old /\ now = old
            /\ Len(heap') = Len(heap)

\* C18: a failing build does not empty the pool slot: the cursor has been
\* constructed (if absent) and reset once before the error is returned, the
\* slot keeps it, and a later successful build of the pair reuses it.
C18_FailedBuildKeepsSlot == [](C18_SlotKept) /\ [][C18_BuildStep]_vars

\* C18 witness: the first build of a pair failed, the second succeeded and
\* returned the cursor the first one had constructed.
C18_Witness ==
  /\ builds = 2 /\ Len(heap) = 1
  /\ scans[1].failed = 1 /\ scans[1].ok
  /\ call.err = NoErr /\ call.cursor = 1 /\ ~call.constructed
  /\ heap[1].resets = 2

\* ---------------------------------------------------- claims: Merge Cursor

IsPrefix(a, b) == Len(a) <= Len(b) /\ a = SubSeq(b, 1, Len(a))

\* t lies within the bounds of the scan options, in their direction.
Requested(opt, t) ==
  IF opt.Ascending THEN opt.SeekTime <= t /\ t <= opt.StopTime
                   ELSE opt.StopTime <= t /\ t <= opt.SeekTime

\* The direction-sorted, deduplicated union of cache and disk within the
\* bounds of the scan, the cache value at a timestamp both hold.
ExpectedMerge(sc) ==
  LET s == SortedSeq({t \in sc.cacheSet \cup sc.diskSet : Requested(sc.opt, t)})
      pts == [i \in 1..Len(s) |->
                [t |-> s[i],
                 v |-> IF s[i] \in sc.cacheSet THEN CacheVal(s[i]) ELSE DiskVal(s[i])]]
  IN IF sc.opt.Ascending THEN pts ELSE Reverse(pts)

\* C7: after a successful build, the concatenation of the arrays returned by
\* next() is a prefix of the expected merge, and is all of it once an empty
\* array has been returned.
C7_MergeCorrect ==
  \A id \in CursorIds :
    scans[id].ok =>
      /\ IsPrefix(scans[id].emitted, ExpectedMerge(scans[id]))
      /\ (scans[id].emptyPulls >= 1 => scans[id].emitted = ExpectedMerge(scans[id]))

\* C7 witness: the scaled scenario of the specification: the cache holds
\* timestamps 1 and MaxTime, the disk 2..MaxTime, ascending over the whole
\* range; the disk's point at MaxTime is shadowed by the cache's.
C7_Witness ==
  /\ query = FullRange(TRUE)
  /\ cache[KeyOf("f1")] = {1, MaxTime} /\ disk[KeyOf("f1")] = 2..MaxTime
  /\ \E id \in CursorIds :
       /\ scans[id].ok /\ scans[id].emptyPulls >= 1
       /\ Len(scans[id].emitted) = MaxTime
       /\ scans[id].emitted[1].v = CacheVal(1)
       /\ scans[id].emitted[2].v = DiskVal(2)
       /\ scans[id].emitted[MaxTime].v = CacheVal(MaxTime)

\* The timestamps a cursor has not consumed: its cache remainder, the rest of
\* its current disk block and the blocks its disk cursor has yet to yield.
Remainder(c) ==
  {c.cache[i].t : i \in {j \in 1..Len(c.cache) :
                           IF c.ascending THEN j >= c.cpos ELSE j <= c.cpos}}
  \cup {c.tsm[i].t : i \in {j \in 1..Len(c.tsm) :
                              IF c.ascending THEN j >= c.tpos ELSE j <= c.tpos}}
  \cup UNION {{c.kc.blocks[b][i].t : i \in 1..Len(c.kc.blocks[b])} :
                b \in 1..Len(c.kc.blocks)}

\* C8: every array next() returns has at most the block size bound of points,
\* and it is empty only when nothing within the scan's bounds remains in the
\* cache remainder or the disk cursor.
C8_BlockBound ==
  \A id \in CursorIds :
    /\ Len(scans[id].last) <= DefaultMaxPointsPerBlock
    /\ (scans[id].ok /\ scans[id].pulls >= 1 /\ scans[id].last = <<>>) =>
         \A t \in Remainder(heap[id]) : ~Requested(scans[id].opt, t)

\* C8 witness: a scan returned a full array and then an empty one while
\* points beyond the stop bound remained unconsumed.
C8_Witness ==
  \E id \in CursorIds :
    /\ scans[id].ok /\ scans[id].last = <<>> /\ scans[id].emptyPulls >= 1
    /\ Len(scans[id].emitted) >= DefaultMaxPointsPerBlock
    /\ Remainder(heap[id]) # {}

\* C9: once next() has returned an empty array, every later next() on the
\* cursor returns an empty array too, until the cursor is reset by a build.
C9_ExhaustionIdempotent ==
  \A id \in CursorIds :
    scans[id].emptyPulls >= 1 =>
      /\ scans[id].last = <<>>
      /\ scans[id].pulls >= scans[id].emptyPulls

\* C9 witness: a cursor that emitted points has returned empty twice.
C9_Witness ==
  \E id \in CursorIds :
    /\ scans[id].ok /\ scans[id].emptyPulls >= 2 /\ scans[id].emitted # <<>>

\* the timestamps of an array of points
TimesOf(s) == {s[i].t : i \in 1..Len(s)}

\* the timestamps held by a sequence of blocks
BlockTimes(bs) == UNION {TimesOf(bs[i]) : i \in 1..Len(bs)}

\* C17: in every build the key cursor is opened in the direction of the scan
\* options and the pooled cursor of that direction is the one reset; both get
\* the options' seek time; reset is handed the cache snapshot and the key
\* cursor obtained for the build's own series-field key.
C17_DirectionsAgree ==
  call.q # "" =>
    /\ call.keyCursor.ascending = call.opt.Ascending
    /\ heap[call.slot].ascending = call.opt.Ascending
    /\ call.slot = SlotOf(call.q, call.typ, call.opt.Ascending)
    /\ call.slot # SlotOf(call.q, call.typ, ~call.opt.Ascending)
    /\ call.keyCursor.seek = call.opt.SeekTime
    /\ call.seek = call.opt.SeekTime
    /\ call.keyCursor.key = KeyOf(call.field)
    /\ call.cacheValues = CacheValues(KeyOf(call.field))
    /\ call.keyCursor = KeyCursor(KeyOf(call.field), call.opt.SeekTime,
                                  call.opt.Ascending, call.resetErr)
    /\ (call.err = NoErr /\ scans[call.slot].pulls = 0) =>
         /\ heap[call.slot].cache = call.cacheValues
         /\ heap[call.slot].seek = call.opt.SeekTime
         /\ heap[call.slot].kc.key = KeyOf(call.field)
         /\ heap[call.slot].kc.ascending = call.opt.Ascending
         /\ BlockTimes(<<heap[call.slot].tsm>> \o heap[call.slot].kc.blocks)
              = BlockTimes(call.keyCursor.blocks)

\* C17 witness: a descending build from a seek time inside the data, with
\* points in the cache snapshot and blocks under the key cursor.
C17_Witness ==
  /\ call.q # "" /\ call.err = NoErr /\ ~call.opt.Ascending
  /\ call.opt.SeekTime < MaxTime /\ call.opt.SeekTime > 1
  /\ call.cacheValues # <<>> /\ call.keyCursor.blocks # <<>>
  /\ ~call.keyCursor.ascending /\ ~heap[call.slot].ascending

\* C19: in every build the cache snapshot is taken before the key cursor is
\* opened, each once and both before reset; so a point the engine moves from
\* the cache to disk between the two calls is in the snapshot or under the
\* key cursor handed to reset, never in neither.
C19_SnapshotBeforeOpen ==
  call.q # "" =>
    /\ SubSeq(call.calls, 1, 2) = <<"Cache.Values", "KeyCursor">>
    /\ call.calls[Len(call.calls)] = "reset"
    /\ \A f \in {"Cache.Values", "KeyCursor", "reset"} :
         Cardinality({i \in 1..Len(call.calls) : call.calls[i] = f}) = 1
    /\ \A t \in call.moved :
         t \in TimesOf(call.cacheValues) \/ t \in BlockTimes(call.keyCursor.blocks)
    /\ call.moved \subseteq disk[KeyOf(call.field)]
    /\ call.moved \cap cache[KeyOf(call.field)] = {}

\* C19 witness: during a successful build a point that was only in the cache
\* was flushed; it is in the snapshot and in a block under the key cursor.
C19_Witness ==
  /\ call.q # "" /\ call.err = NoErr
  /\ \E t \in call.moved :
       /\ t \in TimesOf(call.cacheValues)
       /\ t \in BlockTimes(call.keyCursor.blocks)

\* ------------------------------------------- claims: Time Values Sequence

CeilDiv(a, b) == (a + b - 1) \div b

\* The block lengths a sequence of count c must emit: ceil(c/B) blocks, each
\* B long except the last, which is c mod B (B when B divides c).
ExpectedBlocks(c) ==
  [i \in 1..CeilDiv(c, DefaultMaxPointsPerBlock) |->
     IF i < CeilDiv(c, DefaultMaxPointsPerBlock) \/ c % DefaultMaxPointsPerBlock = 0
       THEN DefaultMaxPointsPerBlock
       ELSE c % DefaultMaxPointsPerBlock]

\* C1: from the freshly constructed state with count C >= 0, the j-th Next()
\* returns true exactly when j <= ceil(C/B) and false afterwards; the blocks
\* exposed are B long except possibly the last (C mod B, or B), and once false
\* is returned their lengths sum to C.
C1_BlockArithmetic ==
  (resetCalls = 0 /\ count >= 0) =>
    LET e == ExpectedBlocks(count) IN
      /\ (nextCalls >= 1 => ret = IF nextCalls <= Len(e) THEN "true" ELSE "false")
      /\ Len(blocks) = min(nextCalls, Len(e))
      /\ blocks = SubSeq(e, 1, Len(blocks))
      /\ (ret = "false" => SumSeq(blocks) = count)

\* C1 witness: a fresh sequence of more than two full blocks plus a short one
\* has been pulled to exhaustion (the scaled 250/100 scenario).
C1_Witness ==
  /\ resetCalls = 0
  /\ count = 2 * DefaultMaxPointsPerBlock + 1
  /\ ret = "false"
  /\ blocks = <<DefaultMaxPointsPerBlock, DefaultMaxPointsPerBlock, 1>>

\* C2 as stated: once Next() has returned false, every later Next() returns
\* false, leaves the remaining count at 0, leaves the typed array and both
\* sub-sequences untouched, and only Reset() ends the false results.
C2_ExhaustionTerminal_AsStated ==
  [][ret = "false" =>
       /\ (op' = "Next" =>
             /\ ret' = "false"
             /\ n = 0 /\ n' = 0
             /\ vals' = vals
             /\ ts' = ts /\ vs' = vs)
       /\ (ret' # "false" => op' = "Reset")]_vars

\* C2 (amended): once Next() has returned false, every later Next() returns
\* false and changes nothing: the remaining count keeps its value (0 when
\* count >= 0, the negative count otherwise), the typed array keeps length
\* and content, neither sub-sequence is written; only Reset() ends it.
C2_ExhaustionTerminal ==
  [][ret = "false" =>
       /\ (op' = "Next" =>
             /\ ret' = "false"
             /\ n' = n /\ n = (IF count >= 0 THEN 0 ELSE count)
             /\ count' = count
             /\ vals' = vals
             /\ ts' = ts /\ vs' = vs)
       /\ (ret' # "false" => op' = "Reset")]_vars

\* C2 witness: a sequence that emitted blocks has returned false twice.
C2_Witness ==
  /\ op = "Next" /\ ret = "false" /\ falseCalls >= 2
  /\ count > DefaultMaxPointsPerBlock

\* The state after k Next() calls on a freshly constructed sequence of count c.
RECURSIVE FreshRun(_, _)
FreshRun(c, k) ==
  IF k = 0
    THEN [s |-> NewSeq(c), ret |-> "none", blocks |-> <<>>]
    ELSE LET p == FreshRun(c, k - 1)
             r == NextSeqStep(p.s)
         IN [s |-> r.s, ret |-> r.ret,
             blocks |-> IF r.ret = "true"
                          THEN Append(p.blocks, r.s.vals.Timestamps.len)
                          ELSE p.blocks]

\* C3: every Reset() resets each sub-sequence and restores n to count (also
\* when it follows another Reset()), and the Next() results, block lengths
\* and block contents after it are those of a fresh sequence of that count.
C3_ResetRestoresFresh ==
  /\ ts.resets = resetCalls /\ vs.resets = resetCalls
  /\ (op = "Reset" =>
        /\ n = count
        /\ ts.pos = 0 /\ ts.writes = 0
        /\ vs.pos = 0 /\ vs.writes = 0)
  /\ (resetCalls >= 1 =>
        LET f == FreshRun(count, nextCalls) IN
          /\ ret = f.ret
          /\ blocks = f.blocks
          /\ n = f.s.n
          /\ (blocks # <<>> => Visible(vals) = Visible(f.s.vals)))

\* C3 witness: after a second Reset() the sequence was pulled to exhaustion
\* again, through at least one full and one short block.
C3_Witness ==
  /\ resetCalls = 2 /\ ret = "false"
  /\ Len(blocks) >= 2
  /\ blocks[Len(blocks)] < DefaultMaxPointsPerBlock

\* C4: Values() returns the internal typed array, which is the block filled by
\* the last true Next(): also when exhausted, and also (stale) after Reset().
C4_ValuesReturnsLastBlock ==
  op = "Values" => got = filled /\ got = Visible(vals)

\* C4 witness: Values() called after Reset() and before the next Next() returns
\* the stale short block of the previous scan.
C4_Witness ==
  /\ op = "Values" /\ ret = "none" /\ resetCalls >= 1
  /\ Len(got.Timestamps) \in 1..(DefaultMaxPointsPerBlock - 1)
  /\ got.Timestamps[1] > DefaultMaxPointsPerBlock

\* C11: in every reachable state the timestamps and the values of the typed
\* array have the same logical length, and it is at most the block size bound.
C11_EqualLengths ==
  /\ vals.Timestamps.len = vals.Values.len
  /\ Len(View(vals.Timestamps)) = Len(View(vals.Values))
  /\ vals.Timestamps.len <= DefaultMaxPointsPerBlock
  /\ vals.Timestamps.len >= 0

\* C11 witness: a short final block has been exposed (the array shrank).
C11_Witness ==
  /\ op = "Next" /\ ret = "true"
  /\ vals.Timestamps.len \in 1..(DefaultMaxPointsPerBlock - 1)

\* C12 (state part): with count >= 0 the remaining count lies in 0..count.
C12_Range == count >= 0 => 0 <= n /\ n <= count

\* C12 (step part): a true Next() takes min(n, B) >= 1, the length of the block
\* it exposes, off n; a false Next() leaves n; only Reset() raises n, to count.
C12_Step ==
  count >= 0 =>
    /\ (nextCalls' = nextCalls + 1 /\ ret' = "true") =>
         /\ n' = n - vals'.Timestamps.len
         /\ vals'.Timestamps.len = min(n, DefaultMaxPointsPerBlock)
         /\ vals'.Timestamps.len >= 1
    /\ (nextCalls' = nextCalls + 1 /\ ret' = "false") => n' = n
    /\ n' > n => resetCalls' = resetCalls + 1 /\ n' = count
    /\ resetCalls' = resetCalls + 1 => n' = count

\* C12: 0 <= n <= C always; n falls by the emitted block's length on a true
\* Next(), stays on a false one, and rises only through Reset(), to C.
C12_RemainingCount == [](C12_Range) /\ [][C12_Step]_vars

\* C12 witness: after a Reset() mid-scan raised n back to count, a true Next()
\* took a block off it.
C12_Witness ==
  /\ resetCalls >= 1 /\ op = "Next" /\ ret = "true"
  /\ 0 < n /\ n < count

\* The calls of the last operation, and the totals since the last Reset():
\* a true Next() calls ts.Write once and then vs.Write once, both with a buffer
\* of min(remaining, B) elements; a false Next() calls neither; Reset() calls
\* each sub-sequence's Reset once; both totals requested are equal.
C13_Calls ==
  /\ (op = "Next" /\ ret = "true") =>
       /\ subcalls = <<[fn |-> "ts.Write", len |-> blocks[Len(blocks)]],
                       [fn |-> "vs.Write", len |-> blocks[Len(blocks)]]>>
       /\ blocks[Len(blocks)] = min(n + blocks[Len(blocks)], DefaultMaxPointsPerBlock)
  /\ (op = "Next" /\ ret = "false") => subcalls = <<>>
  /\ op = "Reset" => subcalls = <<[fn |-> "ts.Reset", len |-> 0],
                                  [fn |-> "vs.Reset", len |-> 0]>>
  /\ ts.resets = resetCalls /\ vs.resets = resetCalls
  /\ ts.writes = Len(blocks) /\ vs.writes = Len(blocks)
  /\ ts.requested = SumSeq(blocks) /\ vs.requested = ts.requested

\* C13 as stated: the lockstep calls, and both totals equal C at exhaustion
\* whatever the count. Violated by a sequence of negative count.
C13_Lockstep_AsStated ==
  /\ C13_Calls
  /\ ret = "false" => ts.requested = count /\ vs.requested = count

\* C13: a true Next() calls ts.Write once and then vs.Write once, both with a
\* buffer of min(remaining, B) elements; Reset() calls each sub-sequence's
\* Reset once; between two Resets both totals requested are equal, and at
\* exhaustion they equal C when C >= 0 and 0 when C < 0.
C13_Lockstep ==
  /\ C13_Calls
  /\ (ret = "false" /\ count >= 0) => ts.requested = count /\ vs.requested = count
  /\ (ret = "false" /\ count < 0) => ts.requested = 0 /\ vs.requested = 0

\* C13 witness: after a Reset() the sequence was driven through several
\* blocks to exhaustion.
C13_Witness ==
  /\ resetCalls >= 1 /\ ret = "false" /\ ts.writes >= 2
  /\ vs.requested = count

\* C14: Next() never reslices beyond the capacity allocated at construction:
\* nothing panics, the capacity stays B, and the next block size fits in it.
C14_ResliceWithinCap ==
  /\ ~panicked /\ ret # "panic"
  /\ Cap(vals.Timestamps) = DefaultMaxPointsPerBlock
  /\ Cap(vals.Values) = DefaultMaxPointsPerBlock
  /\ HasRemaining(Self) =>
       /\ BlockSize(Self) <= Cap(vals.Timestamps)
       /\ BlockSize(Self) <= Cap(vals.Values)

\* C14 witness: Values() showed the short final block, and after a Reset()
\* the first Next() regrew the array to a full block.
C14_Witness ==
  /\ resetCalls >= 1 /\ op = "Next" /\ ret = "true" /\ nextCalls = 1
  /\ vals.Timestamps.len = DefaultMaxPointsPerBlock
  /\ Len(got.Timestamps) \in 1..(DefaultMaxPointsPerBlock - 1)

\* C15: a sequence constructed with count <= 0 never returns true, never
\* writes to a sub-sequence and never changes its remaining count, before and
\* after Reset().
C15_NonPositiveCount ==
  count <= 0 =>
    /\ ret \in {"none", "false"}
    /\ (op = "Next" => ret = "false")
    /\ n = count
    /\ blocks = <<>>
    /\ ts.writes = 0 /\ vs.writes = 0
    /\ ts.requested = 0 /\ vs.requested = 0
    /\ vals = NewSeq(count).vals

\* C15 witness: a sequence of negative count returned false twice after a
\* Reset().
C15_Witness ==
  /\ count < 0 /\ resetCalls >= 1 /\ op = "Next" /\ falseCalls >= 2

====
